---- MODULE Spec2Model ----
(***************************************************************************)
(* Model of the codebase-snapshot tools (codebase_snapshot.py and          *)
(* docs_pack.py): the exclusion filter, the directory-tree renderer, the   *)
(* module-docstring extractor and the text truncator.                      *)
(*                                                                         *)
(* Text is modelled as sequences of one-character strings.  Characters     *)
(* outside ASCII are written by their code point: "U+2026" is the          *)
(* horizontal ellipsis, "U+2514" "U+251C" "U+2500" "U+2502" are the box    *)
(* drawing characters of the tree connectors.                              *)
(***************************************************************************)
EXTENDS Integers, Sequences, FiniteSets, TLC

VARIABLES
    fs,         \* the directory tree: relative path -> kind of entry
    denied,     \* directories whose listing raises PermissionError
    args,       \* the command-line arguments of the run
    calls,      \* results of the build_tree_lines calls made so far
    mainOut,    \* outcome of main: a sequence of at most one result
    skipIn,     \* arguments of a _should_skip call
    skipOut,    \* its result: a sequence of at most one result
    source,     \* a Python source text, as a sequence of physical lines
    docOut,     \* result of extract_module_docstring: at most one result
    text,       \* argument of truncate
    limits,     \* [max_lines, max_chars]
    truncOuts   \* results of successive truncate applications

vars == <<fs, denied, args, calls, mainOut, skipIn, skipOut, source, docOut,
          text, limits, truncOuts>>

treeVars    == <<fs, denied, args, calls, mainOut>>
skipVars    == <<skipIn, skipOut>>
extractVars == <<source, docOut>>
truncVars   == <<text, limits, truncOuts>>

(***************************************************************************)
(* Values of the variables a specification does not use.                   *)
(***************************************************************************)
IdleTree    == /\ fs = <<>> /\ denied = {} /\ args = <<>>
               /\ calls = <<>> /\ mainOut = <<>>
IdleSkip    == skipIn = <<>> /\ skipOut = <<>>
IdleExtract == source = <<>> /\ docOut = <<>>
IdleTrunc   == text = <<>> /\ limits = <<>> /\ truncOuts = <<>>

(***************************************************************************)
(* Bounds of the model.                                                    *)
(***************************************************************************)
MaxSegs      == 3   \* a text is a concatenation of at most MaxSegs segments
MaxLinesArg  == 2   \* max_lines ranges over 0..MaxLinesArg
MaxCharsArg  == 24  \* max_chars ranges over 0..MaxCharsArg
MaxApply     == 2   \* truncate is applied at most MaxApply times in a row

(***************************************************************************)
(* Python string and list primitives.                                      *)
(***************************************************************************)
NL == "\n"

\* str.isspace for the characters of the model
IsSpace(c) == c \in {" ", NL, "\t"}

\* seq[:k]
Slice(s, k) ==
    IF k >= 0
    THEN SubSeq(s, 1, IF k < Len(s) THEN k ELSE Len(s))
    ELSE SubSeq(s, 1, IF Len(s) + k > 0 THEN Len(s) + k ELSE 0)

\* str.rstrip()
RECURSIVE RStrip(_)
RStrip(s) ==
    IF s # <<>> /\ IsSpace(s[Len(s)]) THEN RStrip(SubSeq(s, 1, Len(s) - 1)) ELSE s

\* str.lstrip()
RECURSIVE LStrip(_)
LStrip(s) ==
    IF s # <<>> /\ IsSpace(s[1]) THEN LStrip(Tail(s)) ELSE s

\* str.strip()
Strip(s) == LStrip(RStrip(s))

\* str.strip("\n")
RECURSIVE RStripNL(_)
RStripNL(s) ==
    IF s # <<>> /\ s[Len(s)] = NL THEN RStripNL(SubSeq(s, 1, Len(s) - 1)) ELSE s

RECURSIVE LStripNL(_)
LStripNL(s) ==
    IF s # <<>> /\ s[1] = NL THEN LStripNL(Tail(s)) ELSE s

StripNL(s) == LStripNL(RStripNL(s))

\* index of the first occurrence of c in s, 0 when there is none
RECURSIVE IndexFrom(_, _, _)
IndexFrom(s, c, i) ==
    IF i > Len(s) THEN 0
    ELSE IF s[i] = c THEN i
    ELSE IndexFrom(s, c, i + 1)

IndexOf(s, c) == IndexFrom(s, c, 1)

\* str.splitlines() (the only line boundary of the model's texts is "\n")
RECURSIVE SplitLines(_)
SplitLines(s) ==
    IF s = <<>> THEN <<>>
    ELSE LET i == IndexOf(s, NL)
         IN  IF i = 0 THEN <<s>>
             ELSE <<SubSeq(s, 1, i - 1)>> \o SplitLines(SubSeq(s, i + 1, Len(s)))

\* sep.join(parts)
RECURSIVE Join(_, _)
Join(sep, parts) ==
    IF parts = <<>> THEN <<>>
    ELSE IF Len(parts) = 1 THEN parts[1]
    ELSE parts[1] \o sep \o Join(sep, Tail(parts))

(***************************************************************************)
(* truncate / truncate_block                                               *)
(***************************************************************************)
\* the marker line "... (truncated)", 13 characters
Marker == <<"U+2026", " ", "(", "t", "r", "u", "n", "c", "a", "t", "e", "d", ")">>

\* the margin of out[: max_chars - 20]
CutMargin == 20

TruncateLines(lines, max_lines) ==
    IF Len(lines) > max_lines THEN Slice(lines, max_lines) \o <<Marker>> ELSE lines

Truncate(t, max_lines, max_chars) ==
    LET lines == TruncateLines(SplitLines(t), max_lines)
        out   == Join(<<NL>>, lines)
    IN  IF Len(out) > max_chars
        THEN RStrip(Slice(out, max_chars - CutMargin)) \o <<NL>> \o Marker
        ELSE out

\* The texts truncate is applied to: concatenations of at most MaxSegs segments.
Run10 == <<"a", "a", "a", "a", "a", "a", "a", "a", "a", "a">>

Segments == {<<"a">>, <<" ">>, <<NL>>, Run10}

RECURSIVE TextsUpTo(_)
TextsUpTo(n) ==
    IF n = 0 THEN {<<>>}
    ELSE LET prev == TextsUpTo(n - 1)
         IN  prev \cup {t \o s : t \in prev, s \in Segments}

\* main passes truncate only docstrings the extractor returned: stripped of
\* leading and trailing newlines, and not blank.
IsExtractedText(t) == StripNL(t) = t /\ Strip(t) # <<>>

InitTrunc ==
    /\ text \in {t \in TextsUpTo(MaxSegs) : IsExtractedText(t)}
    /\ limits \in [max_lines : 0..MaxLinesArg, max_chars : 0..MaxCharsArg]
    /\ truncOuts = <<>>
    /\ IdleTree /\ IdleSkip /\ IdleExtract

\* One application of truncate: to the text first, then to its own output.
ApplyTruncate ==
    /\ limits # <<>>
    /\ Len(truncOuts) < MaxApply
    /\ LET arg == IF truncOuts = <<>> THEN text ELSE truncOuts[Len(truncOuts)]
       IN  truncOuts' = Append(truncOuts, Truncate(arg, limits.max_lines, limits.max_chars))
    /\ UNCHANGED <<text, limits, treeVars, skipVars, extractVars>>

NextTrunc == ApplyTruncate

SpecTrunc == InitTrunc /\ [][NextTrunc]_vars

(***************************************************************************)
(* C2: truncation is idempotent: truncating the output of truncate again   *)
(* with the same limits returns it unchanged.                              *)
(***************************************************************************)
C2_TruncateIdempotent ==
    Len(truncOuts) >= 2 => truncOuts[2] = truncOuts[1]

(***************************************************************************)
(* C12: for every text and limits, whenever the text after the line limit  *)
(* is longer than max_chars, truncate returns its first max_chars - 20     *)
(* characters, trailing whitespace trimmed, followed by one marker line;   *)
(* and what truncate returns is never longer than max_chars characters.    *)
(***************************************************************************)
\* the first k characters of s: none when k <= 0
FirstChars(s, k) == SubSeq(s, 1, IF k < Len(s) THEN k ELSE Len(s))

\* the text after the line limit, as the contract describes it
LineTruncated(t, max_lines) ==
    LET lines == SplitLines(t)
    IN  Join(<<NL>>, IF Len(lines) > max_lines
                     THEN SubSeq(lines, 1, max_lines) \o <<Marker>>
                     ELSE lines)

C12_CharBound ==
    truncOuts # <<>> =>
        LET out == LineTruncated(text, limits.max_lines)
        IN  /\ Len(out) > limits.max_chars =>
                   truncOuts[1] = RStrip(FirstChars(out, limits.max_chars - 20))
                                    \o <<NL>> \o Marker
            /\ Len(truncOuts[1]) <= limits.max_chars

(***************************************************************************)
(* Exclusion filter: _matches_any_glob and _should_skip                    *)
(***************************************************************************)
DEFAULT_EXCLUDE_DIRS == {
    <<".", "g", "i", "t">>,
    <<".", "h", "g">>,
    <<".", "s", "v", "n">>,
    <<".", "v", "e", "n", "v">>,
    <<"v", "e", "n", "v">>,
    <<".", "t", "o", "x">>,
    <<".", "e", "g", "g", "s">>,
    <<"_", "_", "p", "y", "c", "a", "c", "h", "e", "_", "_">>,
    <<".", "p", "y", "t", "e", "s", "t", "_", "c", "a", "c", "h", "e">>,
    <<".", "m", "y", "p", "y", "_", "c", "a", "c", "h", "e">>,
    <<".", "r", "u", "f", "f", "_", "c", "a", "c", "h", "e">>,
    <<"n", "o", "d", "e", "_", "m", "o", "d", "u", "l", "e", "s">>,
    <<"d", "i", "s", "t">>,
    <<"b", "u", "i", "l", "d">>,
    <<".", "i", "d", "e", "a">>,
    <<".", "v", "s", "c", "o", "d", "e">>
}

DEFAULT_EXCLUDE_GLOBS == <<
    <<"*", "*", "/", "*", ".", "p", "y", "c">>,
    <<"*", "*", "/", "*", ".", "p", "y", "o">>,
    <<"*", "*", "/", "*", ".", "p", "y", "d">>,
    <<"*", "*", "/", "*", ".", "s", "o">>,
    <<"*", "*", "/", "*", ".", "d", "y", "l", "i", "b">>,
    <<"*", "*", "/", "*", ".", "d", "l", "l">>,
    <<"*", "*", "/", ".", "D", "S", "_", "S", "t", "o", "r", "e">>
>>

\* str.split(sep) for a one-character separator
RECURSIVE Split(_, _)
Split(s, sep) ==
    LET i == IndexOf(s, sep)
    IN  IF i = 0 THEN <<s>>
        ELSE <<SubSeq(s, 1, i - 1)>> \o Split(SubSeq(s, i + 1, Len(s)), sep)

\* str(rel_path): the parts joined by "/"
PathStr(parts) == Join(<<"/">>, parts)

\* Path(string): a leading "/" is the root, empty and "." parts are dropped
ParseParts(s) ==
    [root  |-> s # <<>> /\ s[1] = "/",
     parts |-> SelectSeq(Split(s, "/"), LAMBDA x : x # <<>> /\ x # <<".">>)]

\* fnmatch.fnmatchcase on one path part: "*" is any run of characters, "?" any
\* one character (no pattern of the model holds a "[" class)
RECURSIVE FnMatch(_, _)
FnMatch(s, pat) ==
    IF pat = <<>> THEN s = <<>>
    ELSE IF pat[1] = "*"
         THEN FnMatch(s, Tail(pat)) \/ (s # <<>> /\ FnMatch(Tail(s), pat))
    ELSE IF pat[1] = "?"
         THEN s # <<>> /\ FnMatch(Tail(s), Tail(pat))
    ELSE s # <<>> /\ s[1] = pat[1] /\ FnMatch(Tail(s), Tail(pat))

\* The value a call returns or the exception it raises.
Returns(v) == [exc |-> "none", val |-> v]
Raises(e)  == [exc |-> e, val |-> FALSE]

\* PurePath.match(pattern): an empty pattern raises ValueError; a relative
\* pattern is matched part by part from the right, so it may match a suffix of
\* the path, and "**" is a part pattern like any other.
PathMatch(path_str, pattern) ==
    LET pat == ParseParts(pattern)
        p   == ParseParts(path_str)
        np  == Len(p.parts)
        ng  == Len(pat.parts)
    IN  IF pat.parts = <<>> /\ ~pat.root THEN Raises("ValueError")
        ELSE IF pat.root # p.root THEN Returns(FALSE)
        ELSE IF pat.root /\ ng # np THEN Returns(FALSE)
        ELSE IF ng > np THEN Returns(FALSE)
        ELSE Returns(\A i \in 1..ng : FnMatch(p.parts[np - i + 1], pat.parts[ng - i + 1]))

\* any(p.match(g) for g in globs): the patterns are tried in order, the first
\* match ends the scan, a malformed pattern reached before a match raises.
RECURSIVE _matches_any_glob(_, _)
_matches_any_glob(rel_path, globs) ==
    IF globs = <<>> THEN Returns(FALSE)
    ELSE LET r == PathMatch(rel_path, Head(globs))
         IN  IF r.exc # "none" THEN r
             ELSE IF r.val THEN Returns(TRUE)
             ELSE _matches_any_glob(rel_path, Tail(globs))

\* a filter that applies the excluded names to directories only
_should_skip_DirsOnly(rel_path, is_dir, exclude_dirs, exclude_globs) ==
    IF is_dir /\ \E i \in 1..Len(rel_path) : rel_path[i] \in exclude_dirs
    THEN Returns(TRUE)
    ELSE IF ~is_dir
    THEN _matches_any_glob(PathStr(rel_path), exclude_globs)
    ELSE Returns(FALSE)

_should_skip(rel_path, is_dir, exclude_dirs, exclude_globs) ==
    IF \E i \in 1..Len(rel_path) : rel_path[i] \in exclude_dirs
    THEN Returns(TRUE)
    ELSE IF ~is_dir
    THEN _matches_any_glob(PathStr(rel_path), exclude_globs)
    ELSE Returns(FALSE)

(***************************************************************************)
(* The filter as a function: its arguments are drawn from bounded sets.    *)
(***************************************************************************)
MaxPathLen == 2   \* a relative path has at most MaxPathLen parts

SkipNames == {<<"a", ".", "p", "y", "c">>, <<"b", ".", "p", "y">>, <<"x">>,
              <<"d", "i", "s", "t">>}

RECURSIVE PathsUpTo(_, _)
PathsUpTo(names, n) ==
    IF n = 0 THEN {<<>>}
    ELSE LET prev == PathsUpTo(names, n - 1)
         IN  prev \cup {Append(q, nm) : q \in prev, nm \in names}

\* --exclude-dir values of the model
UserExcludeDirs == {{}, {<<"x">>}}

\* well-formed --exclude-glob values of the model: "*.py", "x/*", "?"
UserExcludeGlobs == {<<>>, <<<<"*", ".", "p", "y">>>>, <<<<"x", "/", "*">>>>, <<<<"?">>>>}

InitSkip ==
    /\ skipIn \in [rel_path      : PathsUpTo(SkipNames, MaxPathLen) \ {<<>>},
                   is_dir        : BOOLEAN,
                   exclude_dirs  : {DEFAULT_EXCLUDE_DIRS \cup d : d \in UserExcludeDirs},
                   exclude_globs : {DEFAULT_EXCLUDE_GLOBS \o g : g \in UserExcludeGlobs}]
    /\ skipOut = <<>>
    /\ IdleTree /\ IdleExtract /\ IdleTrunc

ShouldSkip ==
    /\ skipIn # <<>>
    /\ skipOut = <<>>
    /\ skipOut' = <<_should_skip(skipIn.rel_path, skipIn.is_dir,
                                 skipIn.exclude_dirs, skipIn.exclude_globs)>>
    /\ UNCHANGED <<skipIn, treeVars, extractVars, truncVars>>

NextSkip == ShouldSkip

SpecSkip == InitSkip /\ [][NextSkip]_vars

\* Shell-glob matching of a whole relative path: "**" stands for zero or more
\* whole parts, every other pattern part matches exactly one part.
RECURSIVE GlobFull(_, _)
GlobFull(parts, pat) ==
    IF pat = <<>> THEN parts = <<>>
    ELSE IF pat[1] = <<"*", "*">>
         THEN GlobFull(parts, Tail(pat)) \/ (parts # <<>> /\ GlobFull(Tail(parts), pat))
    ELSE parts # <<>> /\ FnMatch(parts[1], pat[1]) /\ GlobFull(Tail(parts), Tail(pat))

FullPathGlobMatch(rel_path, pattern) == GlobFull(rel_path, ParseParts(pattern).parts)

(***************************************************************************)
(* C6: for a non-directory path _should_skip returns true exactly when a   *)
(* part of the path is an excluded name or the whole relative path matches *)
(* an excluded glob under shell-glob semantics ("**" spans zero or more    *)
(* directories, no match on a suffix alone); for a directory the globs are *)
(* not consulted.                                                          *)
(***************************************************************************)
C6_GlobMatchesFullPath ==
    skipOut # <<>> =>
        LET named == \E i \in 1..Len(skipIn.rel_path) :
                        skipIn.rel_path[i] \in skipIn.exclude_dirs
            globbed == \E k \in 1..Len(skipIn.exclude_globs) :
                        FullPathGlobMatch(skipIn.rel_path, skipIn.exclude_globs[k])
        IN  /\ skipOut[1].exc = "none"
            /\ skipOut[1].val = IF skipIn.is_dir THEN named ELSE (named \/ globbed)

(***************************************************************************)
(* Tree renderer: build_tree_lines and its inner walk                      *)
(***************************************************************************)
MaxEntries  == 3   \* a directory tree holds at most MaxEntries entries
MaxFsDepth  == 2   \* an entry lies at most MaxFsDepth levels below the root
MaxDepthArg == 2   \* max_depth ranges over -1..MaxDepthArg
MaxCalls    == 2   \* build_tree_lines is called at most MaxCalls times

\* Kinds of directory entry: is_dir() holds of "dir" alone, is_file() of "file"
\* alone; "other" is an entry that is neither (a broken symbolic link, a
\* socket, a FIFO).
Kinds == {"dir", "file", "other"}

TreeNames == {<<"a">>, <<"A">>, <<"d", "i", "s", "t">>}

\* ord(c) for the characters of the model's names
Ord(c) ==
    CASE c = "." -> 46  [] c = "A" -> 65  [] c = "B" -> 66  [] c = "Z" -> 90
      [] c = "a" -> 97  [] c = "b" -> 98  [] c = "c" -> 99  [] c = "d" -> 100
      [] c = "i" -> 105 [] c = "p" -> 112 [] c = "s" -> 115 [] c = "t" -> 116
      [] c = "r" -> 114 [] c = "x" -> 120 [] c = "y" -> 121 [] c = "z" -> 122
      [] c = "/" -> 47

\* str.lower()
LowerChar(c) ==
    CASE c = "A" -> "a" [] c = "B" -> "b" [] c = "Z" -> "z" [] OTHER -> c

Lower(s) == [i \in 1..Len(s) |-> LowerChar(s[i])]

\* a < b for strings: by code point, a proper prefix first
RECURSIVE StrLess(_, _)
StrLess(a, b) ==
    IF b = <<>> THEN FALSE
    ELSE IF a = <<>> THEN TRUE
    ELSE IF a[1] = b[1] THEN StrLess(Tail(a), Tail(b))
    ELSE Ord(a[1]) < Ord(b[1])

\* (b1, s1) < (b2, s2) for tuples of a boolean and a string: False < True
KeyLess(k1, k2) ==
    \/ ~k1[1] /\ k2[1]
    \/ k1[1] = k2[1] /\ StrLess(k1[2], k2[2])

\* list.sort(key=...) on a list of [key, val] records: a stable sort; elements
\* whose keys are equal keep the order they had in the list.
RECURSIVE InsertStable(_, _)
InsertStable(sorted, x) ==
    IF sorted = <<>> THEN <<x>>
    ELSE IF KeyLess(x.key, sorted[Len(sorted)].key)
         THEN Append(InsertStable(SubSeq(sorted, 1, Len(sorted) - 1), x),
                     sorted[Len(sorted)])
    ELSE Append(sorted, x)

RECURSIVE StableSort(_)
StableSort(s) ==
    IF s = <<>> THEN <<>>
    ELSE InsertStable(StableSort(SubSeq(s, 1, Len(s) - 1)), s[Len(s)])

Name(p) == p[Len(p)]

\* Path.is_dir(), Path.is_file() in directory tree f
IsDir(f, p)  == p = <<>> \/ (p \in DOMAIN f /\ f[p] = "dir")
IsFile(f, p) == p \in DOMAIN f /\ f[p] = "file"

\* p.relative_to(root)
RelativeTo(p, root) == SubSeq(p, Len(root) + 1, Len(p))

\* the sort key of walk: (p.is_file(), p.name.lower())
SortKey(f, p) == <<IsFile(f, p), Lower(Name(p))>>

\* filtered.sort(key=lambda p: (p.is_file(), p.name.lower()))
SortEntries(f, entries) ==
    LET keyed  == [i \in 1..Len(entries) |-> [key |-> SortKey(f, entries[i]), val |-> entries[i]]]
        sorted == StableSort(keyed)
    IN  [i \in 1..Len(sorted) |-> sorted[i].val]

\* list(dir_path.iterdir()): the entries of the directory in the order the
\* operating system enumerates them, here the order of `order` (a sequence
\* holding every name once).
IterDir(f, dir_path, order) ==
    SelectSeq([i \in 1..Len(order) |-> Append(dir_path, order[i])],
              LAMBDA p : p \in DOMAIN f)

ConnLast == <<"U+2514", "U+2500", "U+2500", " ">>
ConnMid  == <<"U+251C", "U+2500", "U+2500", " ">>
ExtLast  == <<" ", " ", " ", " ">>
\* a continuation that draws no vertical bar
ExtMid_Blank == <<" ", " ", " ", " ">>
ExtMid   == <<"U+2502", " ", " ", " ">>

PermissionDenied == <<"[", "p", "e", "r", "m", "i", "s", "s", "i", "o", "n", " ",
                      "d", "e", "n", "i", "e", "d", "]">>

\* str(p) of a resolved path: the directory tree's own root is /r
AbsStr(root) == <<"/", "r">> \o (IF root = <<>> THEN <<>> ELSE <<"/">> \o PathStr(root))

\* the filter loop of walk: the entries _should_skip lets through, or the
\* exception it raised
RECURSIVE FilterEntries(_, _, _, _)
FilterEntries(cx, entries, i, kept) ==
    IF i > Len(entries) THEN [exc |-> "none", kept |-> kept]
    ELSE LET p == entries[i]
             r == _should_skip(RelativeTo(p, cx.root), IsDir(cx.fs, p),
                               cx.exclude_dirs, cx.exclude_globs)
         IN  IF r.exc # "none" THEN [exc |-> r.exc, kept |-> kept]
             ELSE FilterEntries(cx, entries, i + 1,
                                IF r.val THEN kept ELSE Append(kept, p))

\* a guard that stops one level too late
DepthReached_OffByOne(depth, max_depth) == depth > max_depth

\* the guard of walk: no listing at depth >= max_depth
DepthReached(depth, max_depth) == depth >= max_depth

\* walk(dir_path, prefix, depth), threading the lines appended so far; `listed`
\* records the directories iterdir() was called on, `exc` an exception that
\* ended the walk.
RECURSIVE Walk(_, _, _, _, _)
RECURSIVE EmitEntries(_, _, _, _, _, _)
\* a walk that swallows the PermissionError and appends no placeholder
Walk_DeniedSilent(cx, dir_path, prefix, depth, acc) ==
    IF DepthReached(depth, cx.max_depth) THEN acc
    ELSE LET acc1 == [acc EXCEPT !.listed = @ \cup {dir_path}]
         IN  IF dir_path \in cx.denied THEN acc1
             ELSE LET entries == IterDir(cx.fs, dir_path, cx.order)
                      filt    == FilterEntries(cx, entries, 1, <<>>)
                      sorted  == SortEntries(cx.fs, filt.kept)
                  IN  IF filt.exc # "none" THEN [acc1 EXCEPT !.exc = filt.exc]
                      ELSE EmitEntries(cx, sorted, 1, prefix, depth, acc1)

Walk(cx, dir_path, prefix, depth, acc) ==
    IF DepthReached(depth, cx.max_depth) THEN acc
    ELSE LET acc1 == [acc EXCEPT !.listed = @ \cup {dir_path}]
         IN  IF dir_path \in cx.denied
             THEN [acc1 EXCEPT !.lines = Append(@, prefix \o ConnLast \o PermissionDenied)]
             ELSE LET entries == IterDir(cx.fs, dir_path, cx.order)
                      filt    == FilterEntries(cx, entries, 1, <<>>)
                      sorted  == SortEntries(cx.fs, filt.kept)
                  IN  IF filt.exc # "none" THEN [acc1 EXCEPT !.exc = filt.exc]
                      ELSE EmitEntries(cx, sorted, 1, prefix, depth, acc1)

EmitEntries(cx, sorted, i, prefix, depth, acc) ==
    IF i > Len(sorted) \/ acc.exc # "none" THEN acc
    ELSE LET p       == sorted[i]
             is_last == i = Len(sorted)
             name    == Name(p) \o (IF IsDir(cx.fs, p) THEN <<"/">> ELSE <<>>)
             acc1    == [acc EXCEPT !.lines =
                            Append(@, prefix \o (IF is_last THEN ConnLast ELSE ConnMid) \o name)]
             acc2    == IF IsDir(cx.fs, p)
                        THEN Walk(cx, p, prefix \o (IF is_last THEN ExtLast ELSE ExtMid),
                                  depth + 1, acc1)
                        ELSE acc1
         IN  EmitEntries(cx, sorted, i + 1, prefix, depth, acc2)

\* build_tree_lines(root, max_depth, exclude_dirs, exclude_globs) on directory
\* tree f with `den` unreadable, the directories enumerated in `order`
build_tree_lines(f, den, order, root, max_depth, exclude_dirs, exclude_globs) ==
    Walk([fs |-> f, denied |-> den, order |-> order, root |-> root,
          max_depth |-> max_depth, exclude_dirs |-> exclude_dirs,
          exclude_globs |-> exclude_globs],
         root, <<>>, 0,
         [lines |-> <<AbsStr(root)>>, listed |-> {}, exc |-> "none"])

(***************************************************************************)
(* The directory trees and arguments of the model.                         *)
(***************************************************************************)
\* the trees reached from f by creating one more entry in an existing directory
AddEntry(f, names) ==
    {f @@ (e.path :> e.kind) :
        e \in {x \in [path : {Append(d, nm) : d \in DOMAIN f \cup {<<>>}, nm \in names},
                      kind : Kinds] :
                  /\ x.path \notin DOMAIN f
                  /\ Len(x.path) <= MaxFsDepth
                  /\ IsDir(f, SubSeq(x.path, 1, Len(x.path) - 1))}}

RECURSIVE TreesUpTo(_, _)
TreesUpTo(names, n) ==
    IF n = 0 THEN {<<>>}
    ELSE LET prev == TreesUpTo(names, n - 1)
         IN  prev \cup UNION {AddEntry(f, names) : f \in prev}

Dirs(f) == {<<>>} \cup {p \in DOMAIN f : f[p] = "dir"}

\* every order in which the names can be enumerated
Orders(names) ==
    {o \in [1..Cardinality(names) -> names] :
        \A i, j \in 1..Cardinality(names) : o[i] = o[j] => i = j}

\* main's exclude_dirs and exclude_globs: the defaults plus the user's values
ExcludeDirsOf(a)  == DEFAULT_EXCLUDE_DIRS \cup a.exclude_dir
ExcludeGlobsOf(a) == DEFAULT_EXCLUDE_GLOBS \o a.exclude_glob

InitTree ==
    /\ fs \in TreesUpTo(TreeNames, MaxEntries)
    /\ denied \in {{}} \cup {{d} : d \in Dirs(fs)}
    /\ args \in [max_depth    : (0 - 1)..MaxDepthArg,
                 exclude_dir  : {{}, {<<"A">>}},
                 exclude_glob : {<<>>, <<<<"?">>>>}]
    /\ calls = <<>>
    /\ mainOut = <<>>
    /\ IdleSkip /\ IdleExtract /\ IdleTrunc

\* One call build_tree_lines(root, max_depth, exclude_dirs, exclude_globs) on
\* the unchanged directory tree, under some enumeration order.
BuildTreeLines ==
    /\ args # <<>>
    /\ Len(calls) < MaxCalls
    /\ \E order \in Orders(TreeNames) :
          calls' = Append(calls,
                          build_tree_lines(fs, denied, order, <<>>, args.max_depth,
                                           ExcludeDirsOf(args), ExcludeGlobsOf(args)))
    /\ UNCHANGED <<fs, denied, args, mainOut, skipVars, extractVars, truncVars>>

NextTree == BuildTreeLines

SpecTree == InitTree /\ [][NextTree]_vars

(***************************************************************************)
(* Reading a rendered line back: prefix, connector, name.                  *)
(***************************************************************************)
\* index of the connector's first character, 0 on the root line
RECURSIVE ConnFrom(_, _)
ConnFrom(line, i) ==
    IF i > Len(line) THEN 0
    ELSE IF line[i] \in {"U+2514", "U+251C"} THEN i
    ELSE ConnFrom(line, i + 1)

ConnAt(line) == ConnFrom(line, 1)

\* nesting depth of the entry of a line: the root's children are at depth 0
LineDepth(line) == (ConnAt(line) - 1) \div 4

RenderedAsDir(line) == line[Len(line)] = "/"

\* the entry's name, without the "/" that marks a directory
LineName(line) ==
    SubSeq(line, ConnAt(line) + 4, IF RenderedAsDir(line) THEN Len(line) - 1 ELSE Len(line))

\* lines i < j are entries of one directory level
Siblings(lines, i, j) ==
    /\ 2 <= i /\ i < j /\ j <= Len(lines)
    /\ LineDepth(lines[i]) = LineDepth(lines[j])
    /\ \A k \in i..j : LineDepth(lines[k]) >= LineDepth(lines[i])

\* index of the line of the ancestor at depth l of line j (j itself at its own depth)
RECURSIVE AncestorLine(_, _, _)
AncestorLine(lines, j, l) ==
    IF LineDepth(lines[j]) = l THEN j ELSE AncestorLine(lines, j - 1, l)

\* the names from the root's child down to the entry of line j
LinePath(lines, j) ==
    [l \in 1..(LineDepth(lines[j]) + 1) |-> LineName(lines[AncestorLine(lines, j, l - 1)])]

HasExcludedPart(path, excluded) == \E i \in 1..Len(path) : path[i] \in excluded

(***************************************************************************)
(* C3: rendering is deterministic: on a fixed directory tree and fixed     *)
(* arguments, two calls of build_tree_lines return the same lines whatever *)
(* the order in which iterdir enumerates the entries.                      *)
(***************************************************************************)
C3_RenderDeterministic ==
    \A i, j \in 1..Len(calls) : calls[i].lines = calls[j].lines

(***************************************************************************)
(* C4: in every rendered directory level each entry rendered as a          *)
(* directory (trailing "/") precedes each entry rendered as a              *)
(* non-directory, and within each group the lower-cased names ascend.      *)
(***************************************************************************)
C4_SiblingOrder ==
    \A c \in 1..Len(calls) :
        LET lines == calls[c].lines
        IN  \A i, j \in 2..Len(lines) :
                Siblings(lines, i, j) =>
                    /\ RenderedAsDir(lines[j]) => RenderedAsDir(lines[i])
                    /\ RenderedAsDir(lines[i]) = RenderedAsDir(lines[j]) =>
                          ~StrLess(Lower(LineName(lines[j])), Lower(LineName(lines[i])))

(***************************************************************************)
(* C5: no line of build_tree_lines' output names an entry whose name is an *)
(* excluded name, at any depth below the root, nor an entry beneath such a *)
(* directory, and no excluded directory is ever listed.                    *)
(***************************************************************************)
C5_ExclusionCorrect ==
    \A c \in 1..Len(calls) :
        LET lines == calls[c].lines
        IN  /\ \A j \in 2..Len(lines) :
                  ~HasExcludedPart(LinePath(lines, j), ExcludeDirsOf(args))
            /\ \A d \in calls[c].listed : ~HasExcludedPart(d, ExcludeDirsOf(args))

\* a call rendered two levels of a tree that holds an excluded directory with
\* an entry beneath it, next to an entry that is rendered
C5_Witness ==
    /\ calls # <<>>
    /\ args.max_depth >= 2
    /\ denied = {}
    /\ calls[1].exc = "none"
    /\ Len(calls[1].lines) >= 2
    /\ \E p \in DOMAIN fs :
          /\ Len(p) = 2
          /\ p[1] \in ExcludeDirsOf(args)
          /\ fs[<<p[1]>>] = "dir"

(***************************************************************************)
(* C7: a line is emitted for an entry at depth d only if d < max_depth     *)
(* (the root's children are at depth 0); with max_depth <= 0 the output is *)
(* the root line alone; no directory at depth >= max_depth is listed.      *)
(***************************************************************************)
C7_DepthBound ==
    \A c \in 1..Len(calls) :
        LET lines == calls[c].lines
        IN  /\ \A j \in 2..Len(lines) : LineDepth(lines[j]) < args.max_depth
            /\ args.max_depth <= 0 => lines = <<AbsStr(<<>>)>>
            /\ \A d \in calls[c].listed : Len(d) - 1 < args.max_depth

\* a call with max_depth = 1 on a tree with a grandchild of the root beneath a
\* rendered directory
C7_Witness ==
    /\ calls # <<>>
    /\ args.max_depth = 1
    /\ denied = {}
    /\ \E p \in DOMAIN fs :
          /\ Len(p) = 2
          /\ \E j \in 2..Len(calls[1].lines) :
                /\ RenderedAsDir(calls[1].lines[j])
                /\ LineName(calls[1].lines[j]) = p[1]

(***************************************************************************)
(* C11: when iterdir raises PermissionError on a directory that            *)
(* build_tree_lines lists, the call raises no exception, the line after    *)
(* that directory's line is the one placeholder, a last-sibling leaf one   *)
(* level below the directory, no other line lies beneath the directory,    *)
(* and the other lines are those of the same tree with the directory empty *)
(* and readable.                                                           *)
(***************************************************************************)
\* q lies strictly below directory d
IsBelow(q, d) == Len(q) > Len(d) /\ SubSeq(q, 1, Len(d)) = d

\* directory tree f with everything below d removed
Emptied(f, d) == [q \in {x \in DOMAIN f : ~IsBelow(x, d)} |-> f[q]]

\* index of the line of directory d: the root line, or the line whose path is d
LineOf(lines, d) ==
    IF d = <<>> THEN 1
    ELSE CHOOSE j \in 2..Len(lines) : RenderedAsDir(lines[j]) /\ LinePath(lines, j) = d

RemoveAt(s, k) == SubSeq(s, 1, k - 1) \o SubSeq(s, k + 1, Len(s))

IsPlaceholder(line) ==
    /\ ConnAt(line) > 0
    /\ line[ConnAt(line)] = "U+2514"
    /\ SubSeq(line, ConnAt(line) + 4, Len(line)) = PermissionDenied

C11_DenialIsLocal ==
    \A c \in 1..Len(calls) :
        \A d \in denied \cap calls[c].listed :
            LET lines == calls[c].lines
                j     == LineOf(lines, d)
            IN  /\ calls[c].exc = "none"
                /\ j + 1 <= Len(lines)
                /\ IsPlaceholder(lines[j + 1])
                /\ LineDepth(lines[j + 1]) = Len(d)
                /\ j + 2 <= Len(lines) => LineDepth(lines[j + 2]) < Len(d)
                /\ \A k \in 2..Len(lines) : IsPlaceholder(lines[k]) => k = j + 1
                /\ \E o \in Orders(TreeNames) :
                       build_tree_lines(Emptied(fs, d), {}, o, <<>>, args.max_depth,
                                        ExcludeDirsOf(args), ExcludeGlobsOf(args)).lines
                         = RemoveAt(lines, j + 1)

\* a call met an unreadable directory below the root that holds an entry, and
\* rendered a sibling after it
C11_Witness ==
    /\ calls # <<>>
    /\ \E d \in denied \cap calls[1].listed :
          /\ d # <<>>
          /\ \E q \in DOMAIN fs : IsBelow(q, d)
          /\ LineOf(calls[1].lines, d) + 2 <= Len(calls[1].lines)

(***************************************************************************)
(* C13: every entry line of build_tree_lines' output is prefix + connector *)
(* + name: the connector is the corner one exactly when no sibling of the  *)
(* entry is rendered after it and the branch one otherwise; the name is    *)
(* the entry's, with a trailing "/" exactly for a directory; the prefix of *)
(* an entry at depth d has one four-character group per ancestor below the *)
(* root, outermost first: four spaces for an ancestor that was a last      *)
(* sibling, a vertical bar and three spaces for one that was not.          *)
(***************************************************************************)
Parent(q) == SubSeq(q, 1, Len(q) - 1)

\* the lines of entries: every line but the root's and the placeholders
EntryLines(lines) == {j \in 2..Len(lines) : ~IsPlaceholder(lines[j])}

\* no sibling of the entry of line j is rendered after it
IsLastSibling(lines, j) ==
    ~\E k \in EntryLines(lines) :
        k > j /\ Parent(LinePath(lines, k)) = Parent(LinePath(lines, j))

MaxMainEntries == 2   \* main runs on trees of at most MaxMainEntries entries

\* max(1, min(args.max_depth, 6)): the depth of the focus tree
FocusDepthMin == 1
FocusDepthCap == 6

MainNames == {<<"a">>, <<"b", ".", "p", "y">>, <<"d", "i", "s", "t">>}

DotDot == <<".", ".">>

\* Path.resolve(): ".." steps to the parent; a path that leaves the model's
\* tree keeps its leading ".."
RECURSIVE ResolveFrom(_, _)
ResolveFrom(done, rest) ==
    IF rest = <<>> THEN done
    ELSE IF rest[1] = DotDot /\ done # <<>> /\ done[Len(done)] # DotDot
         THEN ResolveFrom(SubSeq(done, 1, Len(done) - 1), Tail(rest))
    ELSE ResolveFrom(Append(done, rest[1]), Tail(rest))

Resolve(p) == ResolveFrom(<<>>, p)

\* p.exists() and p.is_dir(): the directories above the tree's root exist
ExistsAsDir(f, p) == IsDir(f, p) \/ (p # <<>> /\ p[1] = DotDot)

\* _is_within(child, parent)
_is_within(child, parent) ==
    /\ Len(parent) <= Len(child)
    /\ SubSeq(child, 1, Len(parent)) = parent

\* focus.rglob("*.py"): every directory below dir_path is scanned, excluded or
\* not; a directory that cannot be read is passed over silently
RECURSIVE RGlob(_, _, _, _)
RECURSIVE RGlobSubdirs(_, _, _, _, _, _)
RGlob(f, den, order, dir_path) ==
    IF dir_path \in den THEN [found |-> <<>>, listed |-> {dir_path}]
    ELSE LET entries == IterDir(f, dir_path, order)
             here    == SelectSeq(entries, LAMBDA p : FnMatch(Name(p), <<"*", ".", "p", "y">>))
             subdirs == SelectSeq(entries, LAMBDA p : IsDir(f, p))
         IN  RGlobSubdirs(f, den, order, subdirs, 1,
                          [found |-> here, listed |-> {dir_path}])

RGlobSubdirs(f, den, order, subdirs, i, acc) ==
    IF i > Len(subdirs) THEN acc
    ELSE LET r == RGlob(f, den, order, subdirs[i])
         IN  RGlobSubdirs(f, den, order, subdirs, i + 1,
                          [found |-> acc.found \o r.found, listed |-> acc.listed \cup r.listed])

\* the loop of iter_python_files over the paths rglob yields
RECURSIVE PyFilter(_, _, _, _, _, _, _)
PyFilter(f, found, i, root, exclude_dirs, exclude_globs, kept) ==
    IF i > Len(found) THEN [exc |-> "none", kept |-> kept]
    ELSE LET p == found[i]
         IN  IF ~IsFile(f, p)
             THEN PyFilter(f, found, i + 1, root, exclude_dirs, exclude_globs, kept)
             ELSE LET r == _should_skip(RelativeTo(p, root), FALSE, exclude_dirs, exclude_globs)
                  IN  IF r.exc # "none" THEN [exc |-> r.exc, kept |-> kept]
                      ELSE PyFilter(f, found, i + 1, root, exclude_dirs, exclude_globs,
                                    IF r.val THEN kept ELSE Append(kept, p))

\* files.sort(key=lambda p: str(p).lower())
SortFiles(files) ==
    LET keyed  == [i \in 1..Len(files) |->
                      [key |-> <<FALSE, Lower(AbsStr(files[i]))>>, val |-> files[i]]]
        sorted == StableSort(keyed)
    IN  [i \in 1..Len(sorted) |-> sorted[i].val]

iter_python_files(f, den, order, root, focus, exclude_dirs, exclude_globs) ==
    LET g    == RGlob(f, den, order, focus)
        filt == PyFilter(f, g.found, 1, root, exclude_dirs, exclude_globs, <<>>)
    IN  [exc |-> filt.exc, listed |-> g.listed,
         files |-> IF filt.exc = "none" THEN SortFiles(filt.kept) ELSE <<>>]

MainResult(outcome, listed, tree, focus_lines, py_files) ==
    [outcome |-> outcome, listed |-> listed, tree_root_lines |-> tree,
     focus_lines |-> focus_lines, py_files |-> py_files]

Min(a, b) == IF a < b THEN a ELSE b
Max(a, b) == IF a > b THEN a ELSE b

\* main, from the resolution of root and focus to the list of Python files.
\* `listed` collects the directories examined before main ended; the
\* outcome is "ok", "SystemExit" (a reported configuration error) or the
\* exception that escaped.
Main(f, den, order, a) ==
    LET root  == Resolve(a.root)
        focus == Resolve(root \o a.focus)
        exclude_dirs  == ExcludeDirsOf(a)
        exclude_globs == ExcludeGlobsOf(a)
    IN  IF ~ExistsAsDir(f, root) THEN MainResult("SystemExit", {}, <<>>, <<>>, <<>>)
        ELSE IF ~ExistsAsDir(f, focus) THEN MainResult("SystemExit", {}, <<>>, <<>>, <<>>)
        ELSE IF ~_is_within(focus, root) THEN MainResult("SystemExit", {}, <<>>, <<>>, <<>>)
        ELSE
        LET t1 == build_tree_lines(f, den, order, root, a.max_depth,
                                   exclude_dirs, exclude_globs)
        IN  IF t1.exc # "none" THEN MainResult(t1.exc, t1.listed, <<>>, <<>>, <<>>)
            ELSE
            LET t2 == IF focus # root
                      THEN build_tree_lines(f, den, order, focus,
                                            Max(FocusDepthMin, Min(a.max_depth, FocusDepthCap)),
                                            exclude_dirs, exclude_globs)
                      ELSE [lines |-> <<>>, listed |-> {}, exc |-> "none"]
            IN  IF t2.exc # "none"
                THEN MainResult(t2.exc, t1.listed \cup t2.listed, <<>>, <<>>, <<>>)
                ELSE
                LET py == iter_python_files(f, den, order, root, focus,
                                            exclude_dirs, exclude_globs)
                IN  IF py.exc # "none"
                    THEN MainResult(py.exc, t1.listed \cup t2.listed \cup py.listed,
                                    <<>>, <<>>, <<>>)
                    ELSE MainResult("ok", t1.listed \cup t2.listed \cup py.listed,
                                    t1.lines, t2.lines, py.files)

InitMain ==
    /\ fs \in TreesUpTo(MainNames, MaxMainEntries)
    /\ denied \in {{}} \cup {{d} : d \in Dirs(fs)}
    /\ args \in [root         : {<<>>, <<<<"a">>>>},
                 focus        : {<<>>, <<<<"a">>>>, <<DotDot>>},
                 max_depth    : 0..MaxDepthArg,
                 exclude_dir  : {{}},
                 exclude_glob : {<<>>, <<<<>>>>, <<<<"*", ".", "p", "y">>>>}]
    /\ calls = <<>>
    /\ mainOut = <<>>
    /\ IdleSkip /\ IdleExtract /\ IdleTrunc

RunMain ==
    /\ args # <<>>
    /\ mainOut = <<>>
    /\ \E order \in Orders(MainNames) : mainOut' = <<Main(fs, denied, order, args)>>
    /\ UNCHANGED <<fs, denied, args, calls, skipVars, extractVars, truncVars>>

NextMain == RunMain

SpecMain == InitMain /\ [][NextMain]_vars

\* a pattern Path.match rejects ("empty pattern"): "", ".", "./"
Malformed(pattern) == PathMatch(<<"x">>, pattern).exc # "none"

(***************************************************************************)
(* C9: a malformed exclude pattern is rejected at startup: main reports    *)
(* the error before any directory entry is examined, never as a failure    *)
(* in the middle of the traversal.                                         *)
(***************************************************************************)
C9_MalformedGlobRejectedAtStartup ==
    (/\ mainOut # <<>>
     /\ \E k \in 1..Len(args.exclude_glob) : Malformed(args.exclude_glob[k]))
    => (mainOut[1].outcome = "SystemExit" /\ mainOut[1].listed = {})

(***************************************************************************)
(* Documentation extractor: extract_module_docstring and its fallback      *)
(*                                                                         *)
(* A source text is a sequence of logical lines.  A line is a comment, a   *)
(* blank line, a statement (x = 1), a statement that does not parse        *)
(* (x = = 1), a string literal alone on its line, a string literal         *)
(* followed by an operator ("d" + 1), or the opening of a triple-quoted    *)
(* string that is never closed.  `raw` is the text of the line's string    *)
(* token, quotes and escapes included; `indent` says the line is indented. *)
(***************************************************************************)
MaxSrcLines == 3   \* a source text has at most MaxSrcLines logical lines

BS == "\\"
DQ == "\""

\* the string tokens of the model: "d", "", " ", "\n", "\nd\n", " d ",
\* "\n \n", """<newline>d<newline>""", "\x" (an escape that does not decode)
\* and b"d"
RawStrings == {
    <<DQ, "d", DQ>>,
    <<DQ, DQ>>,
    <<DQ, " ", DQ>>,
    <<DQ, BS, "n", DQ>>,
    <<DQ, BS, "n", "d", BS, "n", DQ>>,
    <<DQ, " ", "d", " ", DQ>>,
    <<DQ, BS, "n", " ", BS, "n", DQ>>,
    <<DQ, DQ, DQ, NL, "d", NL, DQ, DQ, DQ>>,
    <<DQ, BS, "x", DQ>>,
    <<"b", DQ, "d", DQ>>
}

SrcLine(kind, raw, indent) == [kind |-> kind, raw |-> raw, indent |-> indent]

SrcLines ==
    {SrcLine(k, <<>>, FALSE) : k \in {"comment", "blank", "stmt", "badstmt", "unterminated"}}
    \cup {SrcLine("string", r, FALSE) : r \in RawStrings}
    \cup {SrcLine("string", <<DQ, "d", DQ>>, TRUE), SrcLine("strexpr", <<DQ, "d", DQ>>, FALSE)}

RECURSIVE SourcesUpTo(_)
SourcesUpTo(n) ==
    IF n = 0 THEN {<<>>}
    ELSE LET prev == SourcesUpTo(n - 1)
         IN  prev \cup {Append(src, l) : src \in prev, l \in SrcLines}

\* the escapes of a string literal's body: \n is a newline, \x without hex
\* digits does not decode
RECURSIVE Unescape(_)
Unescape(body) ==
    IF body = <<>> THEN [ok |-> TRUE, value |-> <<>>]
    ELSE IF body[1] = BS
         THEN IF Len(body) >= 2 /\ body[2] = "n"
              THEN LET r == Unescape(SubSeq(body, 3, Len(body)))
                   IN  [ok |-> r.ok, value |-> <<NL>> \o r.value]
              ELSE [ok |-> FALSE, value |-> <<>>]
    ELSE LET r == Unescape(Tail(body))
         IN  [ok |-> r.ok, value |-> <<body[1]>> \o r.value]

\* ast.literal_eval(tok.string): the value of the literal, a str or a bytes,
\* or an exception
literal_eval(raw) ==
    LET is_bytes == raw[1] = "b"
        lit      == IF is_bytes THEN Tail(raw) ELSE raw
        q        == IF Len(lit) >= 6 /\ SubSeq(lit, 1, 3) = <<DQ, DQ, DQ>> THEN 3 ELSE 1
        r        == Unescape(SubSeq(lit, q + 1, Len(lit) - q))
    IN  [ok |-> r.ok, type |-> IF is_bytes THEN "bytes" ELSE "str", value |-> r.value]

Tok(type, string) == [type |-> type, string |-> string]

\* the tokens of one logical line
LineTokens(l) ==
    CASE l.kind = "comment" -> <<Tok("COMMENT", <<>>), Tok("NL", <<>>)>>
      [] l.kind = "blank"   -> <<Tok("NL", <<>>)>>
      [] l.kind = "stmt"    -> <<Tok("NAME", <<>>), Tok("OP", <<>>), Tok("NUMBER", <<>>),
                                 Tok("NEWLINE", <<>>)>>
      [] l.kind = "badstmt" -> <<Tok("NAME", <<>>), Tok("OP", <<>>), Tok("OP", <<>>),
                                 Tok("NUMBER", <<>>), Tok("NEWLINE", <<>>)>>
      [] l.kind = "string"  -> <<Tok("STRING", l.raw), Tok("NEWLINE", <<>>)>>
      [] l.kind = "strexpr" -> <<Tok("STRING", l.raw), Tok("OP", <<>>), Tok("NUMBER", <<>>),
                                 Tok("NEWLINE", <<>>)>>

IsCode(l) == l.kind \in {"stmt", "badstmt", "string", "strexpr"}

\* tokenize.generate_tokens(io.StringIO(source).readline): the tokens in the
\* order the generator yields them.  A string that is never closed raises
\* TokenError when the generator reaches it: the stream then ends with the
\* pseudo-token "TokenError".
RECURSIVE Tokens(_, _, _)
Tokens(src, i, indented) ==
    IF i > Len(src)
    THEN (IF indented THEN <<Tok("DEDENT", <<>>)>> ELSE <<>>) \o <<Tok("ENDMARKER", <<>>)>>
    ELSE LET l == src[i]
         IN  IF l.kind = "unterminated" THEN <<Tok("TokenError", <<>>)>>
             ELSE IF ~IsCode(l) THEN LineTokens(l) \o Tokens(src, i + 1, indented)
             ELSE (IF l.indent /\ ~indented THEN <<Tok("INDENT", <<>>)>>
                   ELSE IF ~l.indent /\ indented THEN <<Tok("DEDENT", <<>>)>>
                   ELSE <<>>)
                  \o LineTokens(l) \o Tokens(src, i + 1, l.indent)

generate_tokens(src) == Tokens(src, 1, FALSE)

\* ast.parse(source): a SyntaxError, or the statements of the module body
ast_parse(src) ==
    LET bad(l) == \/ l.kind \in {"badstmt", "unterminated"}
                  \/ l.indent
                  \/ l.kind \in {"string", "strexpr"} /\ ~literal_eval(l.raw).ok
    IN  IF \E i \in 1..Len(src) : bad(src[i])
        THEN [ok |-> FALSE, body |-> <<>>]
        ELSE [ok |-> TRUE, body |-> SelectSeq(src, IsCode)]

NoDoc == [some |-> FALSE, value |-> <<>>]

\* ast.get_docstring(module, clean=False): the value of the first statement
\* when it is an expression statement of a str constant
get_docstring(body) ==
    IF body # <<>> /\ body[1].kind = "string" /\ literal_eval(body[1].raw).type = "str"
    THEN [some |-> TRUE, value |-> literal_eval(body[1].raw).value]
    ELSE NoDoc

Found(t, tier, n) == [kind |-> "Found", text |-> t, tier |-> tier, inspected |-> n]
Missing(tier, n)  == [kind |-> "Missing", text |-> <<>>, tier |-> tier, inspected |-> n]
Raised(tier, n)   == [kind |-> "Raised", text |-> <<>>, tier |-> tier, inspected |-> n]

\* a return that strips all surrounding whitespace, not the newlines alone
DocOrNone_StripAll(doc, tier, n) ==
    IF Strip(doc) # <<>> THEN Found(Strip(doc), tier, n) ELSE Missing(tier, n)

\* doc = doc.strip("\n"); return doc if doc.strip() else None
DocOrNone(doc, tier, n) ==
    IF Strip(StripNL(doc)) # <<>> THEN Found(StripNL(doc), tier, n) ELSE Missing(tier, n)

\* the token types the fallback's loop passes over
IsTrivia(type) == type \in {"ENCODING", "NL", "NEWLINE", "COMMENT", "INDENT", "DEDENT"}

\* the loop of a fallback that goes on to the next token when the first
\* substantive token is no string
RECURSIVE ScanTokens_AnyString(_, _)
ScanTokens_AnyString(toks, i) ==
    IF i > Len(toks) THEN Missing("tokens", Len(toks))
    ELSE IF toks[i].type = "TokenError" THEN Raised("tokens", i)
    ELSE IF toks[i].type = "STRING"
         THEN LET v == literal_eval(toks[i].string)
              IN  IF ~v.ok THEN DocOrNone(toks[i].string, "tokens", i)
                  ELSE IF v.type = "str" THEN DocOrNone(v.value, "tokens", i)
                  ELSE Missing("tokens", i)
    ELSE ScanTokens_AnyString(toks, i + 1)

\* the loop of extract_module_docstring_fallback from the i-th token on; the
\* i-th pull from the generator raises when the tokenizer fails there
RECURSIVE ScanTokens(_, _)
ScanTokens(toks, i) ==
    IF i > Len(toks) THEN Missing("tokens", Len(toks))
    ELSE IF toks[i].type = "TokenError" THEN Raised("tokens", i)
    ELSE IF IsTrivia(toks[i].type) THEN ScanTokens(toks, i + 1)
    ELSE IF toks[i].type = "STRING"
         THEN LET v == literal_eval(toks[i].string)
              IN  IF ~v.ok THEN DocOrNone(toks[i].string, "tokens", i)
                  ELSE IF v.type = "str" THEN DocOrNone(v.value, "tokens", i)
                  ELSE Missing("tokens", i)
    ELSE Missing("tokens", i)

extract_module_docstring_fallback(src) == ScanTokens(generate_tokens(src), 1)

extract_module_docstring(src) ==
    LET module == ast_parse(src)
    IN  IF module.ok
        THEN LET doc == get_docstring(module.body)
             IN  IF ~doc.some THEN Missing("ast", 0)
                 ELSE DocOrNone(doc.value, "ast", 0)
        ELSE extract_module_docstring_fallback(src)

InitExtract ==
    /\ source \in SourcesUpTo(MaxSrcLines)
    /\ docOut = <<>>
    /\ IdleTree /\ IdleSkip /\ IdleTrunc

ExtractModuleDocstring ==
    /\ docOut = <<>>
    /\ docOut' = <<extract_module_docstring(source)>>
    /\ UNCHANGED <<source, treeVars, skipVars, truncVars>>

NextExtract == ExtractModuleDocstring

SpecExtract == InitExtract /\ [][NextExtract]_vars

(***************************************************************************)
(* C1: extraction never raises: for every source text the result is a      *)
(* string or None, also when the tokenizer fails while producing tokens.   *)
(***************************************************************************)
C1_ExtractionNeverRaises ==
    docOut # <<>> => docOut[1].kind \in {"Found", "Missing"}

\* the module parsed and its first statement is a string literal alone
LeadingLiteral(src) ==
    /\ ast_parse(src).ok
    /\ ast_parse(src).body # <<>>
    /\ ast_parse(src).body[1].kind = "string"
    /\ literal_eval(ast_parse(src).body[1].raw).type = "str"

LeadingValue(src) == StripNL(literal_eval(ast_parse(src).body[1].raw).value)

HasNonSpace(t) == \E i \in 1..Len(t) : ~IsSpace(t[i])

(***************************************************************************)
(* C8 as stated: when the source parses, the result is Found(v) exactly    *)
(* when the first statement is a standalone string literal whose value,    *)
(* stripped of leading and trailing newlines, is non-empty, v being that   *)
(* stripped value; otherwise it is Missing.                                *)
(***************************************************************************)
C8_Original_FoundIffNonEmpty ==
    (docOut # <<>> /\ ast_parse(source).ok) =>
        IF LeadingLiteral(source) /\ LeadingValue(source) # <<>>
        THEN docOut[1].kind = "Found" /\ docOut[1].text = LeadingValue(source)
        ELSE docOut[1].kind = "Missing"

(***************************************************************************)
(* C8 as amended: when the source parses, the result is Found(v) exactly   *)
(* when the first statement is a standalone string literal whose value,    *)
(* stripped of leading and trailing newlines only, holds at least one      *)
(* character that is not whitespace, v being that newline-stripped value;  *)
(* otherwise it is Missing.                                                *)
(***************************************************************************)
C8_FoundIffNonBlank ==
    (docOut # <<>> /\ ast_parse(source).ok) =>
        IF LeadingLiteral(source) /\ HasNonSpace(LeadingValue(source))
        THEN docOut[1].kind = "Found" /\ docOut[1].text = LeadingValue(source)
        ELSE docOut[1].kind = "Missing"

\* a parsed source whose leading literal lost its newlines and kept its spaces
C8_Witness ==
    /\ docOut # <<>>
    /\ LeadingLiteral(source)
    /\ docOut[1].kind = "Found"
    /\ docOut[1].tier = "ast"
    /\ docOut[1].text # literal_eval(ast_parse(source).body[1].raw).value
    /\ \E l \in 1..Len(source) : source[l].kind = "stmt"

\* index of the first token that is not passed over (the pseudo-token of a
\* tokenizer failure included), 0 when there is none
RECURSIVE FirstSubstantiveFrom(_, _)
FirstSubstantiveFrom(toks, i) ==
    IF i > Len(toks) THEN 0
    ELSE IF toks[i].type \notin {"ENCODING", "NL", "NEWLINE", "COMMENT", "INDENT", "DEDENT"}
         THEN i
    ELSE FirstSubstantiveFrom(toks, i + 1)

FirstSubstantive(src) == FirstSubstantiveFrom(generate_tokens(src), 1)

\* the fallback tier ran and the tokenizer produced a first substantive token
FallbackDecided(src) ==
    /\ ~ast_parse(src).ok
    /\ FirstSubstantive(src) > 0
    /\ generate_tokens(src)[FirstSubstantive(src)].type # "TokenError"

FirstToken(src) == generate_tokens(src)[FirstSubstantive(src)]

(***************************************************************************)
(* C10 as stated: when parsing fails the first substantive token alone     *)
(* decides: a string token gives Found(its decoded value, newlines         *)
(* stripped), any other token or the end of the stream gives Missing, and  *)
(* no later token is inspected.                                            *)
(***************************************************************************)
C10_Original_StringTokenIsFound ==
    (docOut # <<>> /\ FallbackDecided(source)) =>
        /\ docOut[1].inspected = FirstSubstantive(source)
        /\ IF FirstToken(source).type = "STRING"
           THEN /\ docOut[1].kind = "Found"
                /\ docOut[1].text = StripNL(literal_eval(FirstToken(source).string).value)
           ELSE docOut[1].kind = "Missing"

(***************************************************************************)
(* C10 as amended: when parsing fails the first substantive token alone    *)
(* decides and no later token is inspected.  A string token that decodes   *)
(* to a text value gives Found(v), v the value stripped of leading and     *)
(* trailing newlines, when v holds a character that is not whitespace, and *)
(* Missing when v is blank; a bytes literal gives Missing; a string token  *)
(* that does not decode gives its raw text, newline-stripped.  Any other   *)
(* token, or the end of the stream, gives Missing.                         *)
(***************************************************************************)
C10_FirstTokenDecides ==
    (docOut # <<>> /\ FallbackDecided(source)) =>
        LET tok == FirstToken(source)
            v   == literal_eval(tok.string)
        IN  /\ docOut[1].inspected = FirstSubstantive(source)
            /\ IF tok.type # "STRING" THEN docOut[1].kind = "Missing"
               ELSE IF ~v.ok
                    THEN docOut[1].kind = "Found" /\ docOut[1].text = StripNL(tok.string)
               ELSE IF v.type = "str" /\ HasNonSpace(StripNL(v.value))
                    THEN docOut[1].kind = "Found" /\ docOut[1].text = StripNL(v.value)
               ELSE docOut[1].kind = "Missing"

\* the fallback returned a leading string although a later line does not
\* parse and a string follows a non-string token elsewhere
C10_Witness ==
    /\ docOut # <<>>
    /\ FallbackDecided(source)
    /\ docOut[1].kind = "Found"
    /\ docOut[1].tier = "tokens"
    /\ FirstSubstantive(source) > 1
    /\ \E l \in 1..Len(source) : source[l].kind = "badstmt"

====
